---- MODULE Spec2Model ----
(***************************************************************************)
(* Model of the modpack resolution and packaging pipeline:                 *)
(*   scripts/resolve_manifests.py  (pack.toml -> template + lock manifests)*)
(*   scripts/build_mrpack.py       (lock manifests -> .mrpack index)       *)
(*                                                                         *)
(* Python values are modelled as follows.                                  *)
(*   dict       a TLA+ record; an absent key is absent from the DOMAIN     *)
(*   list       a sequence                                                 *)
(*   filename   a sequence of ASCII code points, so that str.lower() and   *)
(*              the code-point order of str comparison are computed        *)
(*   timestamp  a record [wall, tz]: the wall-clock hour and the zone      *)
(*              suffix of an ISO-8601 string                               *)
(*   raise      a result record [ok |-> FALSE, err |-> message]            *)
(*                                                                         *)
(* Values are taken to have the types the registry and the file formats    *)
(* give them: the isinstance tests of the code that only reject a value of *)
(* another type (a file object that is no dict, a size that is no int) are *)
(* not modelled, and every date_published is a well-formed ISO-8601 string *)
(* with a zone.  The input files of both commands exist.                   *)
(***************************************************************************)
EXTENDS Integers, Sequences, FiniteSets, TLC

VARIABLES
    \* ---- one invocation of resolve_manifests.py (and its re-runs)
    args,           \* argparse namespace: [target, check]
    data,           \* the parsed pack.toml
    fs,             \* the output files: path -> [exists, content, written]
    pc,             \* position of main()
    parsed,         \* locals of main(): template, minecraft, loader, locks
    targetIdx,      \* position of the loop `for target in (...)`
    i,              \* resolve_entries: index of the reference being resolved
    versions,       \* resolve_entries: the response of fetch_versions
    resolved,       \* resolve_entries: the list `resolved`
    seen_filenames, \* resolve_entries: the set `seen_filenames`
    error,          \* the exception that ended main(), None when none
    \* ---- observers of the run (history, not read by the program)
    queries,        \* registry queries issued by this invocation, in order
    returned,       \* what resolve_entries returned, per target
    built,          \* the lock entries build_lock_entry returned, in order, per target
    fsAtStart,      \* fs when this invocation started
    runs,           \* number of invocations started
    \* ---- a single call of a pure function
    fn,             \* the function called
    fnArgs,         \* its arguments
    fnRet,          \* what it returned or raised
    \* ---- one invocation of build_mrpack.py
    bargs,          \* argparse namespace: [side]
    manifests,      \* the three lock manifests on disk
    bpc,            \* position of main()
    dist            \* the archives written: side -> index document

vars == << args, data, fs, pc, parsed, targetIdx, i, versions, resolved,
           seen_filenames, error, queries, returned, built, fsAtStart,
           runs, fn, fnArgs, fnRet, bargs, manifests, bpc, dist >>

resolveVars == << args, data, fs, pc, parsed, targetIdx, i, versions, resolved,
                  seen_filenames, error, queries, returned, built,
                  fsAtStart, runs >>
fnVars == << fn, fnArgs, fnRet >>
buildVars == << bargs, manifests, bpc, dist >>

-----------------------------------------------------------------------------
(* Bounds of the model *)

MaxRefs == 3        \* references declared in pack.toml, all categories together
MaxRuns == 2        \* invocations of resolve_manifests.py on the same pack
MaxVersions == 3    \* versions in one registry response (pure-function checks)
MaxFiles == 3       \* files of one version (pure-function checks)
MaxEntries == 3     \* lock entries on disk, all manifests together (packaging)

-----------------------------------------------------------------------------
(* Python helpers *)

None == "None"
Has(d, k) == k \in DOMAIN d
Range(s) == { s[k] : k \in DOMAIN s }
Ok(v) == [ok |-> TRUE, val |-> v]
Raise(msg) == [ok |-> FALSE, err |-> msg]
\* An error whose message names a place of the declaration
RaiseAt(msg, at) == [ok |-> FALSE, err |-> msg, at |-> at]
Min(S) == CHOOSE x \in S : \A y \in S : x <= y

RECURSIVE Concat(_)
\* [*a, *b, ...] of a sequence of sequences
Concat(ss) == IF ss = << >> THEN << >> ELSE Head(ss) \o Concat(Tail(ss))

\* bool(x) of an optional string: None and "" are falsy
Truthy(s) == s # None /\ s # ""

\* All sequences over S of length at most n
SeqUpTo(S, n) == UNION { [1..k -> S] : k \in 0..n }

\* str.lower() on ASCII code points
LowerChar(c) == IF c \in 65..90 THEN c + 32 ELSE c
Lower(s) == [k \in DOMAIN s |-> LowerChar(s[k])]

\* str.__lt__: lexicographic order on code points
StrLess(a, b) ==
    \E k \in 1..(Len(a) + 1) :
        /\ \A j \in 1..(k - 1) : j <= Len(b) /\ a[j] = b[j]
        /\ k <= Len(b)
        /\ (k > Len(a) \/ a[k] < b[k])

-----------------------------------------------------------------------------
(* resolve_manifests.py: constants *)

VALID_SIDES == {"both", "client", "server"}
SUPPORTED_LOADERS == {"fabric", "forge", "quilt", "neoforge"}
MODRINTH_FORMAT_VERSION == 1
MODRINTH_GAME == "minecraft"

-----------------------------------------------------------------------------
(* resolve_manifests.py: version selection *)

\* A faulty variant of filter_versions: the test `and game_versions` is left out, so an
\* empty game_versions list is a constraint that no game version satisfies.
filter_versions_strict(vs, minecraft, loader) ==
    LET Dropped(version) ==
            \/ /\ Has(version, "game_versions")
               /\ minecraft \notin Range(version.game_versions)
            \/ /\ loader # None
               /\ (~Has(version, "loaders") \/ loader \notin Range(version.loaders))
        Keep(version) == ~Dropped(version)
    IN  SelectSeq(vs, Keep)

\* filter_versions(versions, *, minecraft, loader)
filter_versions(vs, minecraft, loader) ==
    LET Dropped(version) ==
            \/ /\ Has(version, "game_versions")         \* isinstance(.., list)
               /\ version.game_versions # << >>         \* and game_versions
               /\ minecraft \notin Range(version.game_versions)
            \/ /\ loader # None
               /\ (~Has(version, "loaders") \/ loader \notin Range(version.loaders))
        Keep(version) == ~Dropped(version)
    IN  SelectSeq(vs, Keep)

\* The default of version.get("date_published", ...): 1970-01-01T00:00:00Z
EPOCH_TS == [wall |-> 0, tz |-> "Z"]

\* Hours east of UTC of a zone suffix
UtcOffset(tz) == CASE tz = "+00:00" -> 0
                   [] tz = "+01:00" -> 1
                   [] tz = "-01:00" -> -1

\* parse_timestamp(ts): "Z" is replaced by "+00:00", then fromisoformat gives an
\* aware datetime, which compares by its UTC instant.
parse_timestamp(ts) ==
    LET zone == IF ts.tz = "Z" THEN "+00:00" ELSE ts.tz
    IN  ts.wall - UtcOffset(zone)

\* version_sort_key(version)
version_sort_key(version) ==
    parse_timestamp(IF Has(version, "date_published")
                    THEN version.date_published ELSE EPOCH_TS)

\* list.sort(key=version_sort_key, reverse=True) is stable: x goes after every
\* element whose key is >= its own.
InsertByKeyDesc(acc, x) ==
    LET later == { k \in 1..Len(acc) : version_sort_key(acc[k]) < version_sort_key(x) }
        at == IF later = {} THEN Len(acc) + 1
              ELSE CHOOSE k \in later : \A j \in later : k <= j
    IN  SubSeq(acc, 1, at - 1) \o << x >> \o SubSeq(acc, at, Len(acc))

RECURSIVE SortPrefixByKeyDesc(_, _)
SortPrefixByKeyDesc(vs, n) ==
    IF n = 0 THEN << >>
    ELSE InsertByKeyDesc(SortPrefixByKeyDesc(vs, n - 1), vs[n])

\* A faulty variant of the sort: ascending sort, then reversed, which turns the order
\* of equal keys around.
sorted_newest_first_reversed(vs) ==
    LET InsertAsc(acc, x) ==
            LET later == { k \in 1..Len(acc) :
                             version_sort_key(acc[k]) > version_sort_key(x) }
                at == IF later = {} THEN Len(acc) + 1
                      ELSE CHOOSE k \in later : \A j \in later : k <= j
            IN  SubSeq(acc, 1, at - 1) \o << x >> \o SubSeq(acc, at, Len(acc))
        asc[n \in 0..Len(vs)] ==
            IF n = 0 THEN << >> ELSE InsertAsc(asc[n - 1], vs[n])
    IN  [k \in 1..Len(vs) |-> asc[Len(vs)][Len(vs) + 1 - k]]

\* sorted(versions, key=version_sort_key, reverse=True)
sorted_newest_first(vs) == SortPrefixByKeyDesc(vs, Len(vs))

\* select_version(versions, version_number).  ret is what the call returns or
\* raises; versions is the caller's list object after the call (`matched` is a
\* new list and sorted() copies, so no branch sorts the argument in place).
select_version(vs, version_number) ==
    IF vs = << >> THEN
        [ret |-> Raise("No compatible versions found"), versions |-> vs]
    ELSE IF Truthy(version_number) THEN
        LET IsPin(v) == Has(v, "version_number") /\ v.version_number = version_number
            matched == SelectSeq(vs, IsPin)
        IN  IF matched = << >> THEN
                [ret |-> Raise("No compatible version_number found"), versions |-> vs]
            ELSE IF Len(matched) > 1 THEN
                [ret |-> Ok(sorted_newest_first(matched)[1]), versions |-> vs]
            ELSE
                [ret |-> Ok(matched[1]), versions |-> vs]
    ELSE
        [ret |-> Ok(sorted_newest_first(vs)[1]), versions |-> vs]

-----------------------------------------------------------------------------
(* resolve_manifests.py: file selection and lock entries *)

\* A faulty variant of select_file: the primary flag is ignored.
select_file_first(version_data) ==
    IF ~Has(version_data, "files") \/ version_data.files = << >>
    THEN Raise("Selected Modrinth version has no files")
    ELSE Ok(version_data.files[1])

\* select_file(version_data)
select_file(version_data) ==
    IF ~Has(version_data, "files") \/ version_data.files = << >> THEN
        Raise("Selected Modrinth version has no files")
    ELSE
        LET IsPrimary(f) == Has(f, "primary") /\ f.primary = TRUE
            primary == SelectSeq(version_data.files, IsPrimary)
        IN  IF primary # << >> THEN Ok(primary[1])
            ELSE Ok(version_data.files[1])

HASH_ALGORITHMS == {"sha1", "sha512"}

\* A faulty variant of build_lock_entry: the entry is returned even when
\* neither sha1 nor sha512 was kept.
build_lock_entry_unhashed(file_obj, side) ==
    IF ~Has(file_obj, "filename") \/ file_obj.filename = << >> THEN
        Raise("Missing filename in Modrinth response")
    ELSE IF ~Has(file_obj, "url") \/ file_obj.url = "" THEN
        Raise("Missing download URL in Modrinth response")
    ELSE IF ~Has(file_obj, "size") \/ file_obj.size <= 0 THEN
        Raise("Missing/invalid file size in Modrinth response")
    ELSE IF ~Has(file_obj, "hashes") THEN
        Raise("Missing hashes in Modrinth response")
    ELSE
        LET kept == { a \in {"sha1", "sha512"} :
                        Has(file_obj.hashes, a) /\ file_obj.hashes[a] # "" }
        IN  Ok([filename |-> file_obj.filename,
                side |-> side,
                downloads |-> << file_obj.url >>,
                hashes |-> [a \in kept |-> file_obj.hashes[a]],
                fileSize |-> file_obj.size])

\* build_lock_entry(file_obj, side)
build_lock_entry(file_obj, side) ==
    IF ~Has(file_obj, "filename") \/ file_obj.filename = << >> THEN
        Raise("Missing filename in Modrinth response")
    ELSE IF ~Has(file_obj, "url") \/ file_obj.url = "" THEN
        Raise("Missing download URL in Modrinth response")
    ELSE IF ~Has(file_obj, "size") \/ file_obj.size <= 0 THEN
        Raise("Missing/invalid file size in Modrinth response")
    ELSE IF ~Has(file_obj, "hashes") THEN
        Raise("Missing hashes in Modrinth response")
    ELSE
        LET kept == { a \in HASH_ALGORITHMS :
                        Has(file_obj.hashes, a) /\ file_obj.hashes[a] # "" }
            out_hashes == [a \in kept |-> file_obj.hashes[a]]
        IN  IF kept = {} THEN Raise("No sha1/sha512 hash provided by Modrinth")
            ELSE Ok([filename |-> file_obj.filename,
                     side |-> side,
                     downloads |-> << file_obj.url >>,
                     hashes |-> out_hashes,
                     fileSize |-> file_obj.size])

\* A faulty variant of the loop order: resource packs are resolved before mods.
LockTargetsResourcePacksFirst == << "resourcepacks", "mods", "shaderpacks" >>

\* main(): for target in ("mods", "resourcepacks", "shaderpacks")
LockTargets == << "mods", "resourcepacks", "shaderpacks" >>

\* main() passes require_loader=(target == "mods")
require_loader_for(target) == target = "mods"

\* resolve_entries: filter_versions(versions, minecraft=minecraft,
\*                                  loader=loader if require_loader else None)
filter_for_entries(vs, minecraft, loader, require_loader) ==
    filter_versions(vs, minecraft, IF require_loader THEN loader ELSE None)

-----------------------------------------------------------------------------
(* A single call of a pure function: the inputs are drawn in the initial     *)
(* state, the action makes the call.                                         *)

Pending == [pending |-> TRUE]
Called == fnRet # Pending

FnIdle == fn = None /\ fnArgs = << >> /\ fnRet = Pending

\* Timestamps as the registry writes them.  [wall 2, Z], [wall 3, +01:00] and
\* [wall 1, -01:00] are the same instant written three ways.
TimestampPool ==
    { [wall |-> 1, tz |-> "Z"], [wall |-> 2, tz |-> "Z"],
      [wall |-> 3, tz |-> "+01:00"], [wall |-> 1, tz |-> "-01:00"] }

SelectVersionPool ==
    { [version_number |-> n, date_published |-> ts] :
        n \in {"1.0", "2.0"}, ts \in TimestampPool }
    \cup { [version_number |-> n] : n \in {"1.0", "2.0"} }

FilterVersionPool ==
    { [version_number |-> "1.0", game_versions |-> gv, loaders |-> ls] :
        gv \in { << >>, << "1.20.1" >>, << "1.19.2" >>, << "1.19.2", "1.20.1" >> },
        ls \in { << "fabric" >>, << "forge", "quilt" >> } }
    \cup { [version_number |-> "1.0", loaders |-> ls] :
        ls \in { << "fabric" >>, << "forge", "quilt" >> } }
    \cup { [version_number |-> "1.0", game_versions |-> gv] :
        gv \in { << "1.20.1" >>, << "1.19.2" >> } }

FilePool ==
    { [filename |-> f, primary |-> p] : f \in { << 97 >>, << 98 >> }, p \in BOOLEAN }
    \cup { [filename |-> f] : f \in { << 97 >>, << 98 >> } }

CallSelectVersion ==
    /\ fn = "select_version" /\ ~Called
    /\ fnRet' = select_version(fnArgs.versions, fnArgs.version_number)
    /\ UNCHANGED << fn, fnArgs >>

CallFilterVersions ==
    /\ fn = "filter_versions" /\ ~Called
    /\ fnRet' = Ok(filter_for_entries(fnArgs.versions, fnArgs.minecraft,
                                      fnArgs.loader,
                                      require_loader_for(fnArgs.target)))
    /\ UNCHANGED << fn, fnArgs >>

CallSelectFile ==
    /\ fn = "select_file" /\ ~Called
    /\ fnRet' = select_file(fnArgs.version_data)
    /\ UNCHANGED << fn, fnArgs >>

-----------------------------------------------------------------------------
(* resolve_manifests.py: the declarative config *)

\* as_nonempty_str(raw, field_name), raw being d.get(key)
as_nonempty_str(d, key, field_name) ==
    IF ~Has(d, key) \/ d[key] = ""
    THEN RaiseAt("must be a non-empty string", field_name)
    ELSE Ok(d[key])

\* parse_template(data): both tables are fetched first, then the pack fields,
\* then the dependency fields, then the loader is checked.
parse_template(d) ==
    IF ~Has(d, "pack") THEN RaiseAt("must be a TOML table", << "pack" >>)
    ELSE IF ~Has(d, "dependencies")
    THEN RaiseAt("must be a TOML table", << "dependencies" >>)
    ELSE
        LET pack == d.pack
            deps == d.dependencies
            name == as_nonempty_str(pack, "name", << "pack", "name" >>)
            summary == as_nonempty_str(pack, "summary", << "pack", "summary" >>)
            version_id == as_nonempty_str(pack, "debug_version", << "pack", "debug_version" >>)
            minecraft == as_nonempty_str(deps, "minecraft", << "dependencies", "minecraft" >>)
            loader == as_nonempty_str(deps, "loader", << "dependencies", "loader" >>)
            loader_version ==
                as_nonempty_str(deps, "loader_version", << "dependencies", "loader_version" >>)
        IN  IF ~name.ok THEN name
            ELSE IF ~summary.ok THEN summary
            ELSE IF ~version_id.ok THEN version_id
            ELSE IF ~minecraft.ok THEN minecraft
            ELSE IF ~loader.ok THEN loader
            ELSE IF ~loader_version.ok THEN loader_version
            ELSE IF loader.val \notin SUPPORTED_LOADERS
            THEN RaiseAt("must be one of SUPPORTED_LOADERS", << "dependencies", "loader" >>)
            ELSE Ok([template |->
                        [formatVersion |-> MODRINTH_FORMAT_VERSION,
                         game |-> MODRINTH_GAME,
                         name |-> name.val,
                         summary |-> summary.val,
                         versionId |-> version_id.val,
                         dependencies |-> ("minecraft" :> minecraft.val)
                                          @@ (loader.val :> loader_version.val)],
                     minecraft |-> minecraft.val,
                     loader |-> loader.val])

\* A URL is [scheme, netloc, path], path being parsed.path.split("/")
EmptyUrl == [scheme |-> "", netloc |-> "", path |-> << "" >>]

\* as_nonempty_str(raw, field_name) of a string that holds a URL
as_nonempty_url(d, key, field_name) ==
    IF ~Has(d, key) \/ d[key] = EmptyUrl
    THEN RaiseAt("must be a non-empty string", field_name)
    ELSE Ok(d[key])

PathParts(url) == SelectSeq(url.path, LAMBDA part : part # "")

\* normalize_project_url(url)
normalize_project_url(url) ==
    IF url.scheme \notin {"http", "https"} THEN Raise("Invalid project URL")
    ELSE IF url.netloc \notin {"modrinth.com", "www.modrinth.com"}
    THEN Raise("Unsupported host in URL")
    ELSE IF Len(PathParts(url)) # 2 \/ PathParts(url)[1] # "project"
    THEN Raise("Invalid Modrinth project URL path")
    ELSE Ok([scheme |-> "https", netloc |-> "modrinth.com",
             path |-> << "", "project", PathParts(url)[2] >>])

\* collect_entries: the body of the loop over the items of one category
collect_item(raw_item, at) ==
    LET url == as_nonempty_url(raw_item, "url", at \o << "url" >>)
        side == as_nonempty_str(raw_item, "side", at \o << "side" >>)
    IN  IF ~url.ok THEN url
        ELSE IF ~side.ok THEN side
        ELSE IF side.val \notin VALID_SIDES
        THEN RaiseAt("must be one of VALID_SIDES", at \o << "side" >>)
        ELSE IF Has(raw_item, "version") /\ raw_item.version = ""
        THEN RaiseAt("must be a non-empty string when provided", at \o << "version" >>)
        ELSE
            LET norm == normalize_project_url(raw_item.url)
                base == [url |-> norm.val, side |-> side.val]
                named == IF Has(raw_item, "name") /\ raw_item.name # ""
                         THEN base @@ [name |-> raw_item.name] ELSE base
                entry == IF Has(raw_item, "version")
                         THEN named @@ [version |-> raw_item.version] ELSE named
            IN  IF ~norm.ok THEN norm ELSE Ok(entry)

\* The first failure of a sequence of results, or all their values
FirstFailureOrAll(results) ==
    LET bad == { n \in DOMAIN results : ~results[n].ok }
    IN  IF bad = {} THEN Ok([n \in DOMAIN results |-> results[n].val])
        ELSE results[Min(bad)]

\* collect_entries(data, top_key, item_key).  A top-level table is a sequence
\* of [category, table] in the order of the file.
collect_entries(d, top_key, item_key) ==
    IF ~Has(d, top_key) THEN Ok(<< >>)
    ELSE
        LET top_table == d[top_key]
            Category(c) ==
                LET category_table == top_table[c].table
                    at == << top_key, top_table[c].category, item_key >>
                IN  IF ~Has(category_table, item_key)
                    THEN RaiseAt("must be an array", at)
                    ELSE FirstFailureOrAll(
                            [n \in DOMAIN category_table[item_key] |->
                                collect_item(category_table[item_key][n],
                                             at \o << ToString(n - 1) >>)])
            all == FirstFailureOrAll([c \in DOMAIN top_table |-> Category(c)])
        IN  IF all.ok THEN Ok(Concat(all.val)) ELSE all

\* parse_project_id(url)
parse_project_id(url) ==
    IF Len(PathParts(url)) # 2 \/ PathParts(url)[1] # "project"
    THEN Raise("Invalid Modrinth project URL path")
    ELSE Ok(PathParts(url)[2])

-----------------------------------------------------------------------------
(* resolve_manifests.py: resolution of one category *)

\* A faulty variant of the duplicate test: filenames are never taken as seen.
filename_seen_never(filename, seen) == FALSE

\* resolve_entries: `filename in seen_filenames`
filename_seen(filename, seen) == filename \in seen

\* resolve_entries, the body of the loop after fetch_versions: filter, select
\* the version, select the file, build the lock entry.
resolve_one(entry, vs, minecraft, loader, require_loader) ==
    LET filtered_versions == filter_for_entries(vs, minecraft, loader, require_loader)
        selected_version ==
            select_version(filtered_versions,
                           IF Has(entry, "version") THEN entry.version ELSE None).ret
        selected_file == select_file(selected_version.val)
    IN  IF ~selected_version.ok THEN selected_version
        ELSE IF ~selected_file.ok THEN selected_file
        ELSE build_lock_entry(selected_file.val, entry.side)

\* A faulty variant of the sort key: the filename as it is, not lower-cased.
lock_sort_key_raw(lock_entry) == lock_entry.filename

\* resolve_entries: key=lambda x: x["filename"].lower()
lock_sort_key(lock_entry) == Lower(lock_entry.filename)

\* list.sort(key=...) is stable: x goes after every element whose key is <= its own
InsertByFilename(acc, x) ==
    LET later == { k \in 1..Len(acc) : StrLess(lock_sort_key(x), lock_sort_key(acc[k])) }
        at == IF later = {} THEN Len(acc) + 1 ELSE Min(later)
    IN  SubSeq(acc, 1, at - 1) \o << x >> \o SubSeq(acc, at, Len(acc))

RECURSIVE SortPrefixByFilename(_, _)
SortPrefixByFilename(entries, n) ==
    IF n = 0 THEN << >>
    ELSE InsertByFilename(SortPrefixByFilename(entries, n - 1), entries[n])

\* resolved.sort(key=lambda x: x["filename"].lower())
sort_resolved(entries) == SortPrefixByFilename(entries, Len(entries))

-----------------------------------------------------------------------------
(* The files on disk *)

\* A file is absent or holds a content; written counts the times it was
\* opened for writing, as a modification time would tell.
NoFile == [exists |-> FALSE, written |-> 0]
OutputPaths == {"template", "mods", "resourcepacks", "shaderpacks"}

\* A value resolve_entries returned
NotReturned == [exists |-> FALSE]
Returned(content) == [exists |-> TRUE, content |-> content]

\* write_json(path, data)
write_json(files, path, content) ==
    [files EXCEPT ![path] = [exists |-> TRUE, content |-> content,
                             written |-> @.written + 1]]

\* A faulty variant of main's test of args.check: the file is written in check mode too.
write_unless_check_ignored(files, path, content, check) ==
    write_json(files, path, content)

\* main(): `if args.check: print(...) else: write_json(path, data)`
write_unless_check(files, path, content, check) ==
    IF check THEN files ELSE write_json(files, path, content)

\* main(): the list `targets`
targets_of(target) ==
    IF target = "all" THEN {"template", "mods", "resourcepacks", "shaderpacks"}
    ELSE {target}

-----------------------------------------------------------------------------
(* The registry, and the declarations the runs are checked on *)

\* Filenames, as code points: "a", "A", "B", "b"
FileLowerA == << 97 >>
FileUpperA == << 65 >>
FileUpperB == << 66 >>
FileLowerB == << 98 >>

RegistryFile(filename, url, hashes) ==
    [filename |-> filename, url |-> url, size |-> 12345, hashes |-> hashes]

\* What GET /v2/project/<id>/version can answer: [body] is a JSON list of
\* versions, [failure] an HTTPError or URLError.  A project with more than one
\* answer is one whose answer is not known in advance.
Registry(project_id) ==
    CASE project_id = "sodium" ->
            { [body |-> <<
                [version_number |-> "1.0", game_versions |-> << "1.20.1" >>,
                 loaders |-> << "fabric" >>,
                 date_published |-> [wall |-> 1, tz |-> "Z"],
                 files |-> << RegistryFile(FileLowerA, "cdn/sodium-1.0",
                                           [sha512 |-> "abc"])
                              @@ [primary |-> TRUE] >>],
                [version_number |-> "2.0", game_versions |-> << "1.20.1" >>,
                 loaders |-> << "forge" >>,
                 date_published |-> [wall |-> 2, tz |-> "Z"],
                 files |-> << RegistryFile(FileUpperA, "cdn/sodium-2.0",
                                           [sha1 |-> "a1", sha512 |-> "abc"])
                              @@ [primary |-> TRUE] >>] >>] }
      [] project_id = "lithium" ->
            { [body |-> <<
                [version_number |-> "1.1", game_versions |-> << "1.19.2" >>,
                 loaders |-> << "fabric" >>,
                 date_published |-> [wall |-> 5, tz |-> "Z"],
                 files |-> << RegistryFile(FileLowerB, "cdn/lithium-1.1",
                                           [sha512 |-> "def"]) >>],
                [version_number |-> "1.0",
                 loaders |-> << "quilt", "fabric" >>,
                 date_published |-> [wall |-> 3, tz |-> "+01:00"],
                 files |-> << RegistryFile(FileLowerB, "cdn/lithium-sources",
                                           [sha512 |-> "123"])
                              @@ [primary |-> FALSE],
                              RegistryFile(FileUpperB, "cdn/lithium-1.0",
                                           [sha512 |-> "456", md5 |-> "7"])
                              @@ [primary |-> TRUE] >>] >>] }
      [] project_id = "iris" ->
            { [body |-> <<
                [version_number |-> "1.0", game_versions |-> << >>,
                 loaders |-> << "fabric" >>,
                 files |-> << RegistryFile(FileLowerA, "cdn/iris-1.0",
                                           [sha1 |-> "b2", sha512 |-> ""]) >>] >>] }
      [] project_id = "flaky" ->
            { [failure |-> "Modrinth API returned 404"],
              [failure |-> "Network error while requesting"],
              [failure |-> "Unexpected versions response"],
              [body |-> << >>],
              [body |-> << [version_number |-> "3.0", loaders |-> << "fabric" >>,
                            files |-> << >>] >>],
              [body |-> << [version_number |-> "1.0", loaders |-> << "fabric" >>,
                            files |-> << >>] >>],
              [body |-> << [version_number |-> "1.0", loaders |-> << "fabric" >>,
                            files |-> << RegistryFile(FileLowerB, "cdn/flaky",
                                                      << >>) >>] >>] }

Url(netloc, path) == [scheme |-> "https", netloc |-> netloc, path |-> path]

\* The items a pack.toml of the model declares
RefPool ==
    { [url |-> Url("modrinth.com", << "", "project", "sodium" >>),
       side |-> "both", name |-> "Sodium"],
      [url |-> Url("www.modrinth.com", << "", "project", "lithium", "" >>),
       side |-> "client", version |-> "1.0"],
      [url |-> Url("modrinth.com", << "", "project", "iris" >>),
       side |-> "server"],
      [url |-> Url("modrinth.com", << "", "project", "flaky" >>),
       side |-> "both", version |-> "1.0"] }

PackHeader ==
    [pack |-> [name |-> "CHUJ", summary |-> "Create Hardcore", debug_version |-> "dev"],
     dependencies |-> [minecraft |-> "1.20.1", loader |-> "fabric",
                       loader_version |-> "0.15.0"]]

\* The top-level table of one kind of project: absent when nothing is declared,
\* one category for one item, two categories from two items on.
TopTable(items, item_key) ==
    IF Len(items) <= 1
    THEN << [category |-> "core", table |-> (item_key :> items)] >>
    ELSE << [category |-> "core", table |-> (item_key :> SubSeq(items, 1, 1))],
            [category |-> "extra",
             table |-> (item_key :> SubSeq(items, 2, Len(items)))] >>

\* The top-level tables of the three kinds of project
CategoryTables(mods, resourcepacks, shaderpacks) ==
    (IF mods = << >> THEN << >> ELSE [mods |-> TopTable(mods, "mods")])
    @@ (IF resourcepacks = << >> THEN << >>
        ELSE [resourcepacks |-> TopTable(resourcepacks, "packs")])
    @@ (IF shaderpacks = << >> THEN << >>
        ELSE [shaderpacks |-> TopTable(shaderpacks, "packs")])

PackToml(mods, resourcepacks, shaderpacks) ==
    PackHeader @@ CategoryTables(mods, resourcepacks, shaderpacks)

\* Every pack.toml that declares at most MaxRefs items
PackTomls ==
    { PackToml(SubSeq(flat, 1, a), SubSeq(flat, a + 1, b), SubSeq(flat, b + 1, Len(flat))) :
        << flat, a, b >> \in
            { t \in SeqUpTo(RefPool, MaxRefs) \X (0..MaxRefs) \X (0..MaxRefs) :
                t[2] <= t[3] /\ t[3] <= Len(t[1]) } }

TargetChoices == {"all", "template", "mods", "resourcepacks", "shaderpacks"}

-----------------------------------------------------------------------------
(* resolve_manifests.py: main() *)

NoError == [ok |-> TRUE]
NoLocals == [valid |-> FALSE]
NothingReturned == [t \in Range(LockTargets) |-> NotReturned]
NothingBuilt == [t \in Range(LockTargets) |-> << >>]

\* The locals of a run that has not started
FreshRun ==
    /\ pc = "start"
    /\ parsed = NoLocals
    /\ targetIdx = 1
    /\ i = 1
    /\ versions = << >>
    /\ resolved = << >>
    /\ seen_filenames = {}
    /\ error = NoError
    /\ queries = << >>
    /\ returned = NothingReturned
    /\ built = NothingBuilt

ResolveIdle ==
    /\ args = [target |-> "all", check |-> TRUE]
    /\ data = << >>
    /\ fs = [p \in OutputPaths |-> NoFile]
    /\ fsAtStart = fs
    /\ runs = 0
    /\ FreshRun
    /\ pc = "start"

target == LockTargets[targetIdx]
entries == parsed.locks[target]

\* The run ends with the exception of a failed call
Fail(result) ==
    /\ pc' = "failed"
    /\ error' = result

\* main(): read_toml, parse_template and the three collect_entries
ReadAndValidate ==
    /\ pc = "start" /\ runs >= 1
    /\ LET t == parse_template(data)
           m == collect_entries(data, "mods", "mods")
           r == collect_entries(data, "resourcepacks", "packs")
           s == collect_entries(data, "shaderpacks", "packs")
       IN  IF ~t.ok THEN Fail(t) /\ UNCHANGED parsed
           ELSE IF ~m.ok THEN Fail(m) /\ UNCHANGED parsed
           ELSE IF ~r.ok THEN Fail(r) /\ UNCHANGED parsed
           ELSE IF ~s.ok THEN Fail(s) /\ UNCHANGED parsed
           ELSE /\ parsed' = [valid |-> TRUE,
                              template |-> t.val.template,
                              minecraft |-> t.val.minecraft,
                              loader |-> t.val.loader,
                              locks |-> [mods |-> m.val, resourcepacks |-> r.val,
                                         shaderpacks |-> s.val]]
                /\ pc' = "template"
                /\ UNCHANGED error
    /\ UNCHANGED << args, data, fs, targetIdx, i, versions, resolved, seen_filenames,
                    queries, returned, built, fsAtStart, runs >>

\* main(): `if "template" in targets: ...`
RenderTemplate ==
    /\ pc = "template"
    /\ IF "template" \in targets_of(args.target)
       THEN /\ fs' = write_unless_check(fs, "template", parsed.template, args.check)
       ELSE UNCHANGED fs
    /\ pc' = "loop"
    /\ targetIdx' = 1
    /\ UNCHANGED << args, data, parsed, i, versions, resolved, seen_filenames, error,
                    queries, returned, built, fsAtStart, runs >>

\* main(): `if target not in targets: continue`
SkipTarget ==
    /\ pc = "loop" /\ targetIdx <= Len(LockTargets)
    /\ target \notin targets_of(args.target)
    /\ targetIdx' = targetIdx + 1
    /\ UNCHANGED << args, data, fs, pc, parsed, i, versions, resolved, seen_filenames,
                    error, queries, returned, built, fsAtStart, runs >>

\* main() calls resolve_entries, which sets up its locals
EnterResolveEntries ==
    /\ pc = "loop" /\ targetIdx <= Len(LockTargets)
    /\ target \in targets_of(args.target)
    /\ pc' = "resolve"
    /\ i' = 1
    /\ resolved' = << >>
    /\ seen_filenames' = {}
    /\ UNCHANGED << args, data, fs, parsed, targetIdx, versions, error, queries,
                    returned, built, fsAtStart, runs >>

\* resolve_entries: parse_project_id(entry["url"]) and fetch_versions(project_id)
FetchVersions ==
    /\ pc = "resolve" /\ i <= Len(entries)
    /\ LET project_id == parse_project_id(entries[i].url)
       IN  IF ~project_id.ok
           THEN Fail(project_id) /\ UNCHANGED << versions, queries >>
           ELSE /\ queries' = Append(queries, [target |-> target, index |-> i,
                                               project_id |-> project_id.val])
                /\ \E response \in Registry(project_id.val) :
                      IF Has(response, "failure")
                      THEN Fail(Raise(response.failure)) /\ UNCHANGED versions
                      ELSE /\ versions' = response.body
                           /\ pc' = "process"
                           /\ UNCHANGED error
    /\ UNCHANGED << args, data, fs, parsed, targetIdx, i, resolved, seen_filenames,
                    returned, built, fsAtStart, runs >>

\* resolve_entries: the rest of the loop body for entries[i]
ResolveFetched ==
    /\ pc = "process"
    /\ LET lock_entry == resolve_one(entries[i], versions, parsed.minecraft,
                                     parsed.loader, require_loader_for(target))
       IN  IF ~lock_entry.ok
           THEN /\ Fail(lock_entry)
                /\ UNCHANGED << i, resolved, seen_filenames, built >>
           ELSE /\ built' = [built EXCEPT ![target] = Append(@, lock_entry.val)]
                /\ IF filename_seen(lock_entry.val.filename, seen_filenames)
                   THEN /\ Fail(RaiseAt("Duplicate resolved filename", << target >>))
                        /\ UNCHANGED << i, resolved, seen_filenames >>
                   ELSE /\ seen_filenames' =
                               seen_filenames \cup {lock_entry.val.filename}
                        /\ resolved' = Append(resolved, lock_entry.val)
                        /\ i' = i + 1
                        /\ pc' = "resolve"
                        /\ UNCHANGED error
    /\ versions' = << >>
    /\ UNCHANGED << args, data, fs, parsed, targetIdx, queries, returned,
                    fsAtStart, runs >>

\* resolve_entries sorts and returns; main() writes the lock unless --check
ReturnResolved ==
    /\ pc = "resolve" /\ i > Len(entries)
    /\ LET sorted == sort_resolved(resolved)
       IN  /\ returned' = [returned EXCEPT ![target] = Returned(sorted)]
           /\ fs' = write_unless_check(fs, target, sorted, args.check)
    /\ targetIdx' = targetIdx + 1
    /\ pc' = "loop"
    /\ UNCHANGED << args, data, parsed, i, versions, resolved, seen_filenames, error,
                    queries, built, fsAtStart, runs >>

\* main(): return 0
ReturnZero ==
    /\ pc = "loop" /\ targetIdx > Len(LockTargets)
    /\ pc' = "done"
    /\ UNCHANGED << args, data, fs, parsed, targetIdx, i, versions, resolved,
                    seen_filenames, error, queries, returned, built,
                    fsAtStart, runs >>

\* The command is run on the pack.toml with any arguments, and run again for
\* the same target with or without --check
Invoke ==
    /\ pc \in {"start", "done", "failed"} /\ runs < MaxRuns
    /\ runs = 0 \/ pc # "start"
    /\ \E t \in TargetChoices, c \in BOOLEAN :
          /\ runs > 0 => t = args.target
          /\ args' = [target |-> t, check |-> c]
    /\ runs' = runs + 1
    /\ fsAtStart' = fs
    /\ pc' = "start"
    /\ parsed' = NoLocals
    /\ targetIdx' = 1
    /\ i' = 1
    /\ versions' = << >>
    /\ resolved' = << >>
    /\ seen_filenames' = {}
    /\ error' = NoError
    /\ queries' = << >>
    /\ returned' = NothingReturned
    /\ built' = NothingBuilt
    /\ UNCHANGED << data, fs >>

Init ==
    /\ data \in PackTomls
    /\ args = [target |-> "all", check |-> TRUE]
    /\ fs = [p \in OutputPaths |-> NoFile]
    /\ fsAtStart = fs
    /\ runs = 0
    /\ FreshRun
    /\ FnIdle
    /\ bargs = << >> /\ manifests = << >> /\ bpc = "idle" /\ dist = << >>

Next ==
    \/ (Invoke /\ UNCHANGED << fnVars, buildVars >>)
    \/ (ReadAndValidate /\ UNCHANGED << fnVars, buildVars >>)
    \/ (RenderTemplate /\ UNCHANGED << fnVars, buildVars >>)
    \/ (SkipTarget /\ UNCHANGED << fnVars, buildVars >>)
    \/ (EnterResolveEntries /\ UNCHANGED << fnVars, buildVars >>)
    \/ (FetchVersions /\ UNCHANGED << fnVars, buildVars >>)
    \/ (ResolveFetched /\ UNCHANGED << fnVars, buildVars >>)
    \/ (ReturnResolved /\ UNCHANGED << fnVars, buildVars >>)
    \/ (ReturnZero /\ UNCHANGED << fnVars, buildVars >>)

Spec == Init /\ [][Next]_vars

-----------------------------------------------------------------------------
(* Properties of a resolve run *)

LockPaths == {"mods", "resourcepacks", "shaderpacks"}
Filenames(lock) == [k \in DOMAIN lock |-> lock[k].filename]
Distinct(seq) == \A j, k \in DOMAIN seq : j # k => seq[j] # seq[k]
IsPermutation(a, b) ==
    /\ Len(a) = Len(b)
    /\ \E p \in [DOMAIN a -> DOMAIN b] :
          /\ \A j, k \in DOMAIN a : j # k => p[j] # p[k]
          /\ \A k \in DOMAIN a : a[k] = b[p[k]]
ResolutionFailed == pc = "failed" /\ parsed # NoLocals

\* C1: in a run without --check and with target "all", a failure while
\* resolving any reference leaves every lock manifest as it was before the run.
C1_NoPartialLockWrites ==
    (ResolutionFailed /\ ~args.check /\ args.target = "all")
        => \A path \in LockPaths : fs[path] = fsAtStart[path]

\* C2: in a run with --check no file is created or modified, whatever the
\* target and the outcome, while the references of every requested category are
\* still queried and resolved: a check run that ends normally has issued one
\* query per declared reference and obtained a manifest for each requested
\* category.
C2_CheckWritesNothing ==
    (runs >= 1 /\ args.check) =>
        /\ fs = fsAtStart
        /\ pc = "done" =>
              \A t \in LockPaths \cap targets_of(args.target) :
                  /\ returned[t].exists
                  /\ Len(returned[t].content) = Len(parsed.locks[t])
                  /\ Len(SelectSeq(queries, LAMBDA q : q.target = t))
                        = Len(parsed.locks[t])

\* C2 witness: a check run for target "all" that resolved references and
\* ended normally, over lock files an earlier run wrote.
C2_Witness ==
    /\ args.check /\ args.target = "all" /\ pc = "done"
    /\ Len(queries) >= 2
    /\ fs["mods"].exists /\ fs["mods"].written = 1

\* C3: resolve_entries either fails or returns one lock entry per declared
\* reference, with pairwise distinct filenames; when two references of a
\* category have resolved to the same filename the run has failed with the
\* duplicate-filename error and that category's manifest was neither returned
\* nor written.
C3_NoSilentDrop ==
    \A t \in LockPaths :
        /\ returned[t].exists =>
              /\ Len(returned[t].content) = Len(parsed.locks[t])
              /\ IsPermutation(returned[t].content, built[t])
              /\ Distinct(Filenames(returned[t].content))
        /\ ~Distinct(Filenames(built[t])) =>
              /\ pc = "failed"
              /\ error.err = "Duplicate resolved filename"
              /\ error.at = << t >>
              /\ ~returned[t].exists
              /\ fs[t] = fsAtStart[t]

\* C3 witness: the second of two references that resolve to one filename has
\* been processed.
C3_Witness ==
    /\ pc = "failed" /\ target = "resourcepacks"
    /\ Len(built["resourcepacks"]) = 2
    /\ built["resourcepacks"][1].filename = built["resourcepacks"][2].filename

\* The queries a run issues if nothing fails: category by category, in the
\* order mods, resourcepacks, shaderpacks, each category in declaration order.
ExpectedQueries ==
    LET order == << "mods", "resourcepacks", "shaderpacks" >>
        Of(t) == IF t \in targets_of(args.target)
                 THEN [n \in 1..Len(parsed.locks[t]) |->
                          [target |-> t, index |-> n,
                           project_id |-> PathParts(parsed.locks[t][n].url)[2]]]
                 ELSE << >>
    IN  Concat([k \in 1..3 |-> Of(order[k])])

EntriesBuilt == Len(built["mods"]) + Len(built["resourcepacks"])
                    + Len(built["shaderpacks"])

\* C9: the registry is queried one reference at a time, in declaration order
\* within a category and in the category order mods, resourcepacks,
\* shaderpacks, each reference at most once; a reference is processed to the
\* end before the next query, and the failing reference is the last queried.
C9_SequentialQueries ==
    IF parsed = NoLocals THEN queries = << >>
    ELSE
        /\ Len(queries) <= Len(ExpectedQueries)
        /\ queries = SubSeq(ExpectedQueries, 1, Len(queries))
        /\ Len(queries) \in {EntriesBuilt, EntriesBuilt + 1}
        /\ Len(queries) = EntriesBuilt + 1 => pc \in {"process", "failed"}
        /\ pc = "process" => Len(queries) = EntriesBuilt + 1
        /\ (pc = "failed" /\ queries # << >>) =>
              /\ queries[Len(queries)].target = target
              /\ queries[Len(queries)].index = i

\* C9 witness: a run that queried a reference of each of two categories and
\* then failed on the third query.
C9_Witness ==
    /\ pc = "failed" /\ Len(queries) = 3
    /\ queries[1].target = "mods" /\ queries[2].target = "resourcepacks"
    /\ queries[3].target = "resourcepacks"

\* C10: a manifest returned by resolve_entries is a permutation of the lock
\* entries built for the declared references, ordered so that the lower-cased
\* filenames never decrease; resolving the same references again against the
\* same registry data returns the manifest an earlier run wrote.
C10_SortedPermutation ==
    \A t \in LockPaths :
        returned[t].exists =>
            LET lock == returned[t].content
            IN  /\ IsPermutation(lock, built[t])
                /\ \A k \in 1..(Len(lock) - 1) :
                      ~StrLess(Lower(lock[k + 1].filename), Lower(lock[k].filename))
                /\ fsAtStart[t].exists => lock = fsAtStart[t].content

\* C10 witness: a second run returns a manifest whose order differs from the
\* order of declaration, equal to the one on disk.
C10_Witness ==
    /\ returned["mods"].exists
    /\ Len(returned["mods"].content) >= 2
    /\ returned["mods"].content # built["mods"]
    /\ fsAtStart["mods"].exists

-----------------------------------------------------------------------------
(* Single calls of select_version, filter_versions and select_file *)

BuildIdle == bargs = << >> /\ manifests = << >> /\ bpc = "idle" /\ dist = << >>

InitSelectVersion ==
    /\ fn = "select_version"
    /\ fnArgs \in [versions : SeqUpTo(SelectVersionPool, MaxVersions),
                   version_number : {None, "1.0", "2.0"}]
    /\ fnRet = Pending
    /\ ResolveIdle /\ BuildIdle

NextSelectVersion == CallSelectVersion /\ UNCHANGED << resolveVars, buildVars >>

SpecSelectVersion == InitSelectVersion /\ [][NextSelectVersion]_vars

InitFilterVersions ==
    /\ fn = "filter_versions"
    /\ fnArgs \in [versions : SeqUpTo(FilterVersionPool, MaxVersions),
                   minecraft : {"1.20.1"},
                   loader : {"fabric"},
                   target : Range(LockTargets)]
    /\ fnRet = Pending
    /\ ResolveIdle /\ BuildIdle

NextFilterVersions == CallFilterVersions /\ UNCHANGED << resolveVars, buildVars >>

SpecFilterVersions == InitFilterVersions /\ [][NextFilterVersions]_vars

InitSelectFile ==
    /\ fn = "select_file"
    /\ fnArgs \in { [version_data |-> [version_number |-> "1.0", files |-> fl]] :
                      fl \in SeqUpTo(FilePool, MaxFiles) }
                  \cup { [version_data |-> [version_number |-> "1.0"]] }
    /\ fnRet = Pending
    /\ ResolveIdle /\ BuildIdle

NextSelectFile == CallSelectFile /\ UNCHANGED << resolveVars, buildVars >>

SpecSelectFile == InitSelectFile /\ [][NextSelectFile]_vars

\* C6: select_version takes as candidates the versions whose version_number
\* equals the pin, or all versions when there is no pin; with no candidate it
\* fails with the no-matching-version error; otherwise it returns the candidate
\* with the greatest publish timestamp, the first in input order among those
\* with the greatest; the input list is not modified.
C6_SelectVersion ==
    (fn = "select_version" /\ Called) =>
        LET pin == fnArgs.version_number
            candidates ==
                IF pin = None THEN fnArgs.versions
                ELSE SelectSeq(fnArgs.versions, LAMBDA v : v.version_number = pin)
            Published(v) == version_sort_key(v)
        IN  /\ fnRet.versions = fnArgs.versions
            /\ IF candidates = << >>
               THEN /\ ~fnRet.ret.ok
                    /\ fnRet.ret.err \in {"No compatible versions found",
                                          "No compatible version_number found"}
               ELSE /\ fnRet.ret.ok
                    /\ \E k \in 1..Len(candidates) :
                          /\ fnRet.ret.val = candidates[k]
                          /\ \A j \in 1..Len(candidates) :
                                Published(candidates[j]) <= Published(candidates[k])
                          /\ \A j \in 1..(k - 1) :
                                Published(candidates[j]) < Published(candidates[k])

\* C6 witness: with a pin, the selected version is the second of two candidates
\* published at the same instant, behind an older one and before the third.
C6_Witness ==
    /\ fn = "select_version" /\ Called
    /\ fnArgs.version_number = "1.0"
    /\ Len(fnArgs.versions) = 3
    /\ \A k \in 1..3 : fnArgs.versions[k].version_number = "1.0"
    /\ version_sort_key(fnArgs.versions[1]) < version_sort_key(fnArgs.versions[2])
    /\ version_sort_key(fnArgs.versions[2]) = version_sort_key(fnArgs.versions[3])
    /\ fnArgs.versions[2] # fnArgs.versions[3]
    /\ fnRet.ret.ok /\ fnRet.ret.val = fnArgs.versions[2]

\* C7: filter_versions keeps a version if and only if it declares no
\* game_versions constraint (none, or an empty list) or the game version is
\* among its game_versions, and no loader is specified or the loader is among
\* its loaders; the result is the kept versions in input order; resolution
\* specifies the loader for the mods category only.
C7_FilterVersions ==
    (fn = "filter_versions" /\ Called) =>
        LET Kept(v) ==
                /\ \/ ~Has(v, "game_versions")
                   \/ v.game_versions = << >>
                   \/ fnArgs.minecraft \in Range(v.game_versions)
                /\ fnArgs.target = "mods" =>
                      (Has(v, "loaders") /\ fnArgs.loader \in Range(v.loaders))
        IN  fnRet.ok /\ fnRet.val = SelectSeq(fnArgs.versions, Kept)

\* C7 witness: for a resource pack, a version of another loader and a version
\* with an empty game_versions list are kept, one of another game version is not.
C7_Witness ==
    /\ fn = "filter_versions" /\ Called
    /\ fnArgs.target = "resourcepacks"
    /\ Len(fnArgs.versions) = 3 /\ Len(fnRet.val) = 2
    /\ \E k \in 1..3 : /\ Has(fnArgs.versions[k], "game_versions")
                       /\ fnArgs.versions[k].game_versions = << >>
                       /\ fnArgs.versions[k] \in Range(fnRet.val)
    /\ \E k \in 1..2 : /\ Has(fnRet.val[k], "loaders")
                       /\ "fabric" \notin Range(fnRet.val[k].loaders)

\* C8: select_file returns the first file flagged primary when there is one,
\* otherwise the first file, and fails with the no-files error when the file
\* list is absent or empty.
C8_SelectFile ==
    (fn = "select_file" /\ Called) =>
        LET v == fnArgs.version_data
        IN  IF ~Has(v, "files") \/ v.files = << >>
            THEN ~fnRet.ok /\ fnRet.err = "Selected Modrinth version has no files"
            ELSE LET flagged == { k \in 1..Len(v.files) :
                                    Has(v.files[k], "primary") /\ v.files[k].primary }
                 IN  /\ fnRet.ok
                     /\ fnRet.val = v.files[IF flagged = {} THEN 1 ELSE Min(flagged)]

\* C8 witness: the primary file is returned although it is not the first file.
C8_Witness ==
    /\ fn = "select_file" /\ Called /\ fnRet.ok
    /\ Has(fnArgs.version_data, "files")
    /\ Len(fnArgs.version_data.files) >= 2
    /\ fnRet.val # fnArgs.version_data.files[1]
    /\ fnRet.val.primary

-----------------------------------------------------------------------------
(* build_mrpack.py *)

REQUIRED_TEMPLATE_KEYS ==
    << "formatVersion", "game", "name", "summary", "versionId", "dependencies" >>

\* validate_template(template)
validate_template(template) ==
    LET missing == SelectSeq(REQUIRED_TEMPLATE_KEYS, LAMBDA k : ~Has(template, k))
    IN  IF missing # << >> THEN RaiseAt("Template missing required keys", missing)
        ELSE Ok(template)

\* validate_entries: the checks on one entry
validate_entry(entry, at) ==
    IF ~Has(entry, "filename") \/ entry.filename = << >>
    THEN RaiseAt("filename must be a non-empty string", at)
    ELSE IF ~Has(entry, "side") \/ entry.side \notin VALID_SIDES
    THEN RaiseAt("side must be one of VALID_SIDES", at)
    ELSE IF \/ ~Has(entry, "downloads") \/ entry.downloads = << >>
            \/ \E k \in DOMAIN entry.downloads : entry.downloads[k] = ""
    THEN RaiseAt("downloads must be a non-empty array of URLs", at)
    ELSE IF \/ ~Has(entry, "hashes")
            \/ ~(Has(entry.hashes, "sha1") \/ Has(entry.hashes, "sha512"))
    THEN RaiseAt("hashes must include at least sha1 or sha512", at)
    ELSE IF ~Has(entry, "fileSize") \/ entry.fileSize <= 0
    THEN RaiseAt("fileSize must be an integer > 0", at)
    ELSE Ok(entry)

\* validate_entries(entries, manifest_name)
validate_entries(lock, manifest_name) ==
    FirstFailureOrAll([n \in DOMAIN lock |->
                          validate_entry(lock[n], << manifest_name, ToString(n - 1) >>)])

\* A faulty variant of env_for_side: the two single sides are taken for each other.
env_for_side_swapped(side) ==
    IF side = "client" THEN [client |-> "unsupported", server |-> "required"]
    ELSE IF side = "server" THEN [client |-> "required", server |-> "unsupported"]
    ELSE [client |-> "required", server |-> "required"]

\* env_for_side(side)
env_for_side(side) ==
    IF side = "client" THEN [client |-> "required", server |-> "unsupported"]
    ELSE IF side = "server" THEN [client |-> "unsupported", server |-> "required"]
    ELSE [client |-> "required", server |-> "required"]

\* f"{path_prefix}/{filename}"
ArchivePath(path_prefix, filename) == [dir |-> path_prefix, name |-> filename]

\* build_files: the dict appended for one entry
file_of(entry, path_prefix) ==
    [path |-> ArchivePath(path_prefix, entry.filename),
     hashes |-> entry.hashes,
     downloads |-> entry.downloads,
     fileSize |-> entry.fileSize,
     env |-> env_for_side(entry.side)]

\* A faulty variant of build_files: an entry is taken only when its side is the target.
build_files_same_side(lock, side, path_prefix) ==
    LET taken == SelectSeq(lock, LAMBDA entry : entry.side = side)
    IN  [k \in DOMAIN taken |-> file_of(taken[k], path_prefix)]

\* build_files(entries, side, path_prefix)
build_files(lock, side, path_prefix) ==
    LET taken == SelectSeq(lock, LAMBDA entry : entry.side \in {"both", side})
    IN  [k \in DOMAIN taken |-> file_of(taken[k], path_prefix)]

\* build_pack(...): the index document written to <slug>-<side>-<version>.mrpack
build_pack(template, mods, resource_packs, shader_packs, side, label, version) ==
    LET mod_files == build_files(mods, side, "mods")
        resource_pack_files == build_files(resource_packs, side, "resourcepacks")
        shader_pack_files == build_files(shader_packs, side, "shaderpacks")
        files == mod_files \o resource_pack_files \o shader_pack_files
    IN  [formatVersion |-> template.formatVersion,
         game |-> template.game,
         dependencies |-> template.dependencies,
         versionId |-> IF version # "" THEN version ELSE template.versionId,
         name |-> << template.name, label >>,
         summary |-> << template.summary, label >>,
         files |-> files]

\* The template file and the lock entries the packaging runs are checked on
TemplateOnDisk == parse_template(PackHeader).val.template

LockEntry(filename, side) ==
    [filename |-> filename, side |-> side, downloads |-> << "cdn/file" >>,
     hashes |-> [sha512 |-> "abc"], fileSize |-> 12345]

LockEntryPool ==
    { LockEntry(f, sd) : f \in {FileLowerA, FileUpperB}, sd \in VALID_SIDES }
    \cup { LockEntry(FileLowerA, "neither") }

ManifestSets ==
    { [mods |-> SubSeq(flat, 1, a), resource_packs |-> SubSeq(flat, a + 1, b),
       shader_packs |-> SubSeq(flat, b + 1, Len(flat))] :
        << flat, a, b >> \in
            { t \in SeqUpTo(LockEntryPool, MaxEntries)
                        \X (0..MaxEntries) \X (0..MaxEntries) :
                t[2] <= t[3] /\ t[3] <= Len(t[1]) } }

NoArchive == [exists |-> FALSE]

\* main() up to the first build_pack: the side, the template, the manifests
BuildValidate ==
    /\ bpc = "start"
    /\ LET side == IF bargs.side # "" THEN bargs.side ELSE "both"
           t == validate_template(TemplateOnDisk)
           m == validate_entries(manifests.mods, "mods")
           r == validate_entries(manifests.resource_packs, "resource_packs")
           s == validate_entries(manifests.shader_packs, "shader_packs")
       IN  bpc' = IF side \notin VALID_SIDES \/ ~t.ok \/ ~m.ok \/ ~r.ok \/ ~s.ok
                  THEN "failed"
                  ELSE IF side = "server" THEN "server" ELSE "client"
    /\ UNCHANGED << bargs, manifests, dist >>

\* main(): build_pack(side="client", label="Client")
BuildClient ==
    /\ bpc = "client"
    /\ dist' = [dist EXCEPT !["client"] =
                   [exists |-> TRUE,
                    index |-> build_pack(TemplateOnDisk, manifests.mods,
                                         manifests.resource_packs,
                                         manifests.shader_packs,
                                         "client", "Client", bargs.version)]]
    /\ bpc' = IF bargs.side \in {"", "both"} THEN "server" ELSE "done"
    /\ UNCHANGED << bargs, manifests >>

\* main(): build_pack(side="server", label="Server")
BuildServer ==
    /\ bpc = "server"
    /\ dist' = [dist EXCEPT !["server"] =
                   [exists |-> TRUE,
                    index |-> build_pack(TemplateOnDisk, manifests.mods,
                                         manifests.resource_packs,
                                         manifests.shader_packs,
                                         "server", "Server", bargs.version)]]
    /\ bpc' = "done"
    /\ UNCHANGED << bargs, manifests >>

InitBuild ==
    /\ bargs \in [side : {"", "both", "client", "server", "all"}, version : {""}]
    /\ manifests \in ManifestSets
    /\ bpc = "start"
    /\ dist = [sd \in {"client", "server"} |-> NoArchive]
    /\ ResolveIdle /\ FnIdle

NextBuild ==
    \/ (BuildValidate /\ UNCHANGED << resolveVars, fnVars >>)
    \/ (BuildClient /\ UNCHANGED << resolveVars, fnVars >>)
    \/ (BuildServer /\ UNCHANGED << resolveVars, fnVars >>)

SpecBuild == InitBuild /\ [][NextBuild]_vars

\* The manifest entries with their category directory, categories concatenated
\* as mods, resourcepacks, shaderpacks, and those a build for side T takes
TaggedEntries ==
    LET Tag(lock, dir) == [k \in DOMAIN lock |-> [entry |-> lock[k], dir |-> dir]]
    IN  Tag(manifests.mods, "mods") \o Tag(manifests.resource_packs, "resourcepacks")
            \o Tag(manifests.shader_packs, "shaderpacks")
IncludedFor(T) ==
    SelectSeq(TaggedEntries, LAMBDA x : x.entry.side = "both" \/ x.entry.side = T)

\* C4: the files array built for side T holds an element for a manifest entry
\* if and only if the entry's side is "both" or T, in manifest order, the
\* categories concatenated as mods, resourcepacks, shaderpacks.
C4_SideFiltering ==
    \A T \in {"client", "server"} :
        dist[T].exists =>
            LET files == dist[T].index.files
                inc == IncludedFor(T)
            IN  /\ Len(files) = Len(inc)
                /\ \A k \in 1..Len(inc) :
                      /\ files[k].path = [dir |-> inc[k].dir,
                                          name |-> inc[k].entry.filename]
                      /\ files[k].hashes = inc[k].entry.hashes
                      /\ files[k].downloads = inc[k].entry.downloads
                      /\ files[k].fileSize = inc[k].entry.fileSize

\* C4 witness: both archives are built from a "both", a "client" and a "server"
\* entry; each archive holds two files.
C4_Witness ==
    /\ bpc = "done" /\ dist["client"].exists /\ dist["server"].exists
    /\ { TaggedEntries[k].entry.side : k \in DOMAIN TaggedEntries } = VALID_SIDES
    /\ Len(TaggedEntries) = 3
    /\ Len(dist["client"].index.files) = 2
    /\ Len(dist["server"].index.files) = 2

\* C5: in the files array built for side T, an entry declared "both" has env
\* {client: required, server: required}; any other entry has the env of the
\* target: {client: required, server: unsupported} for T = client,
\* {client: unsupported, server: required} for T = server.
C5_EnvOfIncluded ==
    \A T \in {"client", "server"} :
        dist[T].exists =>
            LET files == dist[T].index.files
                inc == IncludedFor(T)
            IN  /\ Len(files) = Len(inc)
                /\ \A k \in 1..Len(inc) :
                      files[k].env =
                          IF inc[k].entry.side = "both"
                          THEN [client |-> "required", server |-> "required"]
                          ELSE IF T = "client"
                          THEN [client |-> "required", server |-> "unsupported"]
                          ELSE [client |-> "unsupported", server |-> "required"]

\* C5 witness: a server archive holding a "both" entry and a "server" entry.
C5_Witness ==
    /\ dist["server"].exists
    /\ \E j, k \in DOMAIN dist["server"].index.files :
          /\ dist["server"].index.files[j].env.client = "required"
          /\ dist["server"].index.files[k].env.client = "unsupported"

-----------------------------------------------------------------------------
(* resolve_manifests.py: a run over pack declarations that may be invalid *)

\* The [pack] table: absent, complete, or with identity fields missing or empty
PackTableChoices ==
    { << >>,
      [pack |-> PackHeader.pack],
      [pack |-> [summary |-> "Create Hardcore", debug_version |-> "dev"]],
      [pack |-> [name |-> "", summary |-> "Create Hardcore", debug_version |-> "dev"]],
      [pack |-> [name |-> "CHUJ", debug_version |-> "dev"]],
      [pack |-> [name |-> "CHUJ", summary |-> "Create Hardcore", debug_version |-> ""]],
      [pack |-> [debug_version |-> "dev"]] }

\* The [dependencies] table: absent, complete, with fields missing or empty,
\* or naming a loader outside SUPPORTED_LOADERS
DependenciesChoices ==
    { << >>,
      [dependencies |-> PackHeader.dependencies],
      [dependencies |-> [loader |-> "fabric", loader_version |-> "0.15.0"]],
      [dependencies |-> [minecraft |-> "1.20.1", loader_version |-> "0.15.0"]],
      [dependencies |-> [minecraft |-> "1.20.1", loader |-> "fabric",
                         loader_version |-> ""]],
      [dependencies |-> [minecraft |-> "1.20.1", loader |-> "rift",
                         loader_version |-> "0.15.0"]],
      [dependencies |-> [minecraft |-> "", loader |-> "rift",
                         loader_version |-> "0.15.0"]] }

\* Items that collect_entries rejects: side outside VALID_SIDES, no url, an
\* empty pin, a host that is not Modrinth's.
BadItemPool ==
    { [url |-> Url("modrinth.com", << "", "project", "sodium" >>), side |-> "neither"],
      [side |-> "both"],
      [url |-> Url("modrinth.com", << "", "project", "iris" >>), side |-> "client",
       version |-> ""],
      [url |-> Url("example.com", << "", "project", "sodium" >>), side |-> "both"] }

GoodSodium == CHOOSE item \in RefPool : PathParts(item.url)[2] = "sodium"
GoodIris == CHOOSE item \in RefPool : PathParts(item.url)[2] = "iris"

\* Declared lists of at most two items, the rejected item in either place
ItemLists ==
    { << >>, << GoodSodium >>, << GoodSodium, GoodIris >> }
    \cup { << bad >> : bad \in BadItemPool }
    \cup { << GoodSodium, bad >> : bad \in BadItemPool }

ValidationPackTomls ==
    { (p @@ q) @@ CategoryTables(m, r, << >>) :
        << p, q, m, r >> \in PackTableChoices \X DependenciesChoices \X ItemLists
                              \X { l \in ItemLists : Len(l) <= 1 } }

InitValidate ==
    /\ data \in ValidationPackTomls
    /\ args = [target |-> "all", check |-> TRUE]
    /\ fs = [p \in OutputPaths |-> NoFile]
    /\ fsAtStart = fs
    /\ runs = 0
    /\ FreshRun
    /\ FnIdle
    /\ bargs = << >> /\ manifests = << >> /\ bpc = "idle" /\ dist = << >>

SpecValidate == InitValidate /\ [][Next]_vars

PackIdentityFields == << "name", "summary", "debug_version" >>
DependencyFields == << "minecraft", "loader", "loader_version" >>

\* The first of the fields that the table lacks or holds empty, "" when none
FirstMissing(tbl, fields) ==
    LET bad == { n \in DOMAIN fields : ~Has(tbl, fields[n]) \/ tbl[fields[n]] = "" }
    IN  IF bad = {} THEN "" ELSE fields[Min(bad)]

\* The run stopped in parse_template or collect_entries
ValidationFailed == pc = "failed" /\ parsed = NoLocals

PackFieldWrong == Has(data, "pack") /\ FirstMissing(data.pack, PackIdentityFields) # ""
PackComplete == Has(data, "pack") /\ FirstMissing(data.pack, PackIdentityFields) = ""
DependencyFieldWrong ==
    Has(data, "dependencies") /\ FirstMissing(data.dependencies, DependencyFields) # ""
DependenciesComplete ==
    Has(data, "dependencies") /\ FirstMissing(data.dependencies, DependencyFields) = ""
ErrorNames(path) == Has(error, "at") /\ error.at = path

\* C11: a failed validation reports the first failure in the order pack
\* identity fields, dependency fields, loader membership, per-item checks: a
\* missing or empty pack field is the one named whatever the state of the
\* dependencies table, an unsupported loader is named before any item, and
\* no output file is written.
C11_ValidationOrder ==
    ValidationFailed =>
        /\ fs = fsAtStart
        /\ PackFieldWrong =>
              ErrorNames(<< "pack", FirstMissing(data.pack, PackIdentityFields) >>)
        /\ (PackComplete /\ DependencyFieldWrong) =>
              ErrorNames(<< "dependencies",
                            FirstMissing(data.dependencies, DependencyFields) >>)
        /\ (PackComplete /\ DependenciesComplete
               /\ data.dependencies.loader \notin SUPPORTED_LOADERS) =>
              /\ ErrorNames(<< "dependencies", "loader" >>)
              /\ error.err = "must be one of SUPPORTED_LOADERS"
        /\ (PackComplete /\ DependenciesComplete
               /\ data.dependencies.loader \in SUPPORTED_LOADERS) =>
              ~(Has(error, "at") /\ error.at[1] \in {"pack", "dependencies"})

-----------------------------------------------------------------------------
(* resolve_manifests.py: resolve_entries() as a function of the declared      *)
(* entries and of what the registry answers for each project                 *)

\* fetch_versions(project_id), the registry being a function from project ids
\* to answers
fetch_versions(registry, project_id) ==
    IF Has(registry[project_id], "failure") THEN Raise(registry[project_id].failure)
    ELSE Ok(registry[project_id].body)

\* resolve_entries: `resolved` and `seen_filenames` after the first n turns of
\* the loop, or the exception one of them raised
RECURSIVE ResolveLoop(_, _, _, _, _, _, _)
ResolveLoop(declared, n, registry, minecraft, loader, label, require_loader) ==
    IF n = 0 THEN [ok |-> TRUE, resolved |-> << >>, seen_filenames |-> {}]
    ELSE
        LET before == ResolveLoop(declared, n - 1, registry, minecraft, loader, label,
                                  require_loader)
            project_id == parse_project_id(declared[n].url)
            fetched == fetch_versions(registry, project_id.val)
            lock_entry == resolve_one(declared[n], fetched.val, minecraft, loader,
                                      require_loader)
        IN  IF ~before.ok THEN before
            ELSE IF ~project_id.ok THEN project_id
            ELSE IF ~fetched.ok THEN fetched
            ELSE IF ~lock_entry.ok THEN lock_entry
            ELSE IF filename_seen(lock_entry.val.filename, before.seen_filenames)
            THEN RaiseAt("Duplicate resolved filename", << label >>)
            ELSE [ok |-> TRUE,
                  resolved |-> Append(before.resolved, lock_entry.val),
                  seen_filenames |-> before.seen_filenames
                                         \cup {lock_entry.val.filename}]

\* resolve_entries(entries, minecraft, loader, label, require_loader)
resolve_entries(declared, registry, minecraft, loader, label, require_loader) ==
    LET end == ResolveLoop(declared, Len(declared), registry, minecraft, loader, label,
                           require_loader)
    IN  IF ~end.ok THEN end ELSE Ok(sort_resolved(end.resolved))

\* The entries collect_entries makes of the declared items
CollectedPool == { collect_item(raw_item, << >>).val : raw_item \in RefPool }

ProjectIds == { PathParts(entry.url)[2] : entry \in CollectedPool }

\* One answer of the registry for each project
Registries == { g \in [ProjectIds -> UNION { Registry(p) : p \in ProjectIds }] :
                  \A p \in ProjectIds : g[p] \in Registry(p) }

\* The ways to reorder a list of n entries
Reorderings(n) == { p \in [1..n -> 1..n] : \A j, k \in 1..n : j # k => p[j] # p[k] }

\* resolve_entries is called on a list of entries and on the same entries
\* declared in another order, against the same registry
InitReorder ==
    /\ fn = "resolve_entries"
    /\ \E declared \in SeqUpTo(CollectedPool, MaxRefs), label \in Range(LockTargets),
          registry \in Registries :
          \E p \in Reorderings(Len(declared)) :
              fnArgs = [entries |-> declared,
                        reordered |-> [k \in 1..Len(declared) |-> declared[p[k]]],
                        label |-> label,
                        registry |-> registry]
    /\ fnRet = Pending
    /\ ResolveIdle /\ BuildIdle

CallResolveEntries ==
    /\ fn = "resolve_entries" /\ ~Called
    /\ LET Resolve(declared) ==
               resolve_entries(declared, fnArgs.registry,
                               PackHeader.dependencies.minecraft,
                               PackHeader.dependencies.loader, fnArgs.label,
                               require_loader_for(fnArgs.label))
       IN  fnRet' = [first |-> Resolve(fnArgs.entries),
                     second |-> Resolve(fnArgs.reordered)]
    /\ UNCHANGED << fn, fnArgs >>

NextReorder == CallResolveEntries /\ UNCHANGED << resolveVars, buildVars >>

SpecReorder == InitReorder /\ [][NextReorder]_vars

\* C12: the manifest of a category depends on the set of declared references
\* and on the registry data only: two declaration orders of the same
\* references that both resolve give the same sequence of lock entries, also
\* when two filenames differ only in letter case.
C12_OrderIndependent ==
    (fn = "resolve_entries" /\ Called /\ fnRet.first.ok /\ fnRet.second.ok) =>
        fnRet.first.val = fnRet.second.val

-----------------------------------------------------------------------------
(* From a declared item and a file of the registry to the entry the          *)
(* packaging reads: collect_entries, build_lock_entry, validate_entries      *)

\* A key that is absent or holds one of the values
Optional(key, values) == { << >> } \cup { key :> v : v \in values }

\* File objects as the registry may send them: every field absent, empty,
\* out of range or well-formed, the hashes with and without sha1 / sha512
FileObjPool ==
    { (a @@ b) @@ (c @@ d) :
        << a, b, c, d >> \in
            Optional("filename", { << >>, FileLowerA })
            \X Optional("url", { "", "cdn/file" })
            \X Optional("size", { 0, -1, 12345 })
            \X Optional("hashes",
                        { << >>, [md5 |-> "7"], [sha1 |-> "a1"], [sha512 |-> ""],
                          [sha1 |-> "", sha512 |-> "abc"], [sha1 |-> "", sha512 |-> ""],
                          [sha1 |-> "a1", sha512 |-> "", md5 |-> "7"],
                          [sha1 |-> "a1", sha512 |-> "abc"] }) }

\* The index collect_entries gives the item in its messages
FirstModsItem == << "mods", "core", "mods", "0" >>

InitLockEntry ==
    /\ fn = "build_lock_entry"
    /\ fnArgs \in [raw_item : RefPool \cup BadItemPool, file_obj : FileObjPool]
    /\ fnRet = Pending
    /\ ResolveIdle /\ BuildIdle

\* The item is collected, the entry is built from the selected file with the
\* side of the collected item, the manifest holding it is written, and the
\* packaging validates what it reads back.
CallBuildLockEntry ==
    /\ fn = "build_lock_entry" /\ ~Called
    /\ LET entry == collect_item(fnArgs.raw_item, FirstModsItem)
           lock_entry == build_lock_entry(fnArgs.file_obj, entry.val.side)
       IN  fnRet' = IF ~entry.ok THEN entry
                    ELSE IF ~lock_entry.ok THEN lock_entry
                    ELSE Ok([lock_entry |-> lock_entry.val,
                             validated |-> validate_entries(
                                               sort_resolved(<< lock_entry.val >>),
                                               "mods.lock.json")])
    /\ UNCHANGED << fn, fnArgs >>

NextLockEntry == CallBuildLockEntry /\ UNCHANGED << resolveVars, buildVars >>

SpecLockEntry == InitLockEntry /\ [][NextLockEntry]_vars

\* C13: an entry built by build_lock_entry for an item collect_entries accepted
\* has a non-empty filename, a side among both, client and server, a non-empty
\* list of non-empty download URLs, hashes holding sha1 or sha512 and a file
\* size above zero, and validate_entries accepts the manifest that holds it.
C13_BuiltEntryAccepted ==
    (fn = "build_lock_entry" /\ Called /\ fnRet.ok) =>
        LET e == fnRet.val.lock_entry
        IN  /\ {"filename", "side", "downloads", "hashes", "fileSize"} \subseteq DOMAIN e
            /\ e.filename # << >>
            /\ e.side \in {"both", "client", "server"}
            /\ e.downloads # << >>
            /\ \A k \in DOMAIN e.downloads : e.downloads[k] # ""
            /\ DOMAIN e.hashes \cap {"sha1", "sha512"} # {}
            /\ e.fileSize > 0
            /\ fnRet.val.validated.ok
            /\ fnRet.val.validated.val = << e >>

\* An entry was built from a file whose sha512 is empty and whose md5 is not
\* carried over, for a client-only item, and the packaging accepted it.
C13_Witness ==
    /\ fn = "build_lock_entry" /\ Called /\ fnRet.ok
    /\ fnArgs.file_obj.hashes = [sha1 |-> "a1", sha512 |-> "", md5 |-> "7"]
    /\ fnRet.val.lock_entry.hashes = [sha1 |-> "a1"]
    /\ fnRet.val.lock_entry.side = "client"
    /\ fnRet.val.validated.ok

====
